---- MODULE Spec2Model ----
(***************************************************************************)
(* Two pynput scripts.                                                     *)
(*   mouse.py   (Trigger-and-Replay): on_click replays the key sequence    *)
(*              v, 2, 1 when the trigger button is pressed and the global  *)
(*              is_script_running is False.                                *)
(*   mouseid.py (Button Identifier): on_click prints one line per event.   *)
(* Each statement of on_click is one step of the thread that runs it.      *)
(* Durations are in milliseconds (0.096 s = 96, 0.1 s = 100, 0.005 s = 5); *)
(* random.uniform is a choice among the whole milliseconds of its range.   *)
(***************************************************************************)
EXTENDS Naturals, Sequences, FiniteSets

\* ---------------------------------------------------------------- bounds
\* Events delivered to on_click of mouse.py by a single listener thread.
MaxEvents == 4
\* Events delivered to on_click of mouse.py when two threads may run it.
MaxConcEvents == 2
\* Events delivered to on_click of mouseid.py.
MaxIdEvents == 3

\* ------------------------------------------------------ program constants
\* random.uniform(0.096, 0.1) while 'v' is held
VHoldMinMs == 96
VHoldMaxMs == 100
\* time.sleep(0.005) between 'v' and '2'
GapMs == 5
\* random.uniform(0.096, 0.1) while '1' is held
OneHoldMinMs == 96
OneHoldMaxMs == 100

\* button_to_trigger = mouse.Button.x2
button_to_trigger == "x2"

\* The mouse buttons an event may carry (members of mouse.Button).
Buttons == {"left", "x1", "x2"}

\* Threads that may run on_click of mouse.py; `threads` says which of them
\* the run really has.
Threads == {"t1", "t2"}

VARIABLES
    \* ---- mouse.py
    is_script_running,  \* the global guard flag
    pc,                 \* per thread: the statement of on_click it is at
    args,               \* per thread: button, pressed of its last invocation
                        \*   and the value of the flag its test read
    trace,              \* per thread: the key events its last invocation
                        \*   emitted so far
    slept,              \* per thread: the milliseconds it has slept since
                        \*   its last key event
    keylog,             \* every synthetic key event, in order of emission
    held,               \* the synthetic keys pressed and not yet released
    calls,              \* per thread: invocations of on_click so far
    presses,            \* invocations with (button_to_trigger, True) so far
    threads,            \* the threads that deliver events
    main_pc,            \* the main thread of mouse.py
    \* ---- mouseid.py
    id_events,          \* the events delivered so far, in order
    id_out,             \* the lines printed so far
    id_main_pc          \* the main thread of mouseid.py

mouseVars == <<is_script_running, pc, args, trace, slept, keylog, held,
               calls, presses, threads, main_pc>>
idVars == <<id_events, id_out, id_main_pc>>
vars == <<is_script_running, pc, args, trace, slept, keylog, held, calls,
          presses, threads, main_pc, id_events, id_out, id_main_pc>>

\* ---------------------------------------------------------------- helpers
KeyEvent(op, key) == [op |-> op, key |-> key]

\* random.uniform(a, b): any value of [a, b]
Uniform(a, b) == a .. b

TotalCalls == calls["t1"] + calls["t2"]

\* The statements at which the flag has been set and not yet reset.
ReplayPcs == {"l17", "l18", "l19", "l21", "l24", "l25", "l28", "l29", "l30",
              "l34"}

NoArgs == [button |-> "none", pressed |-> FALSE, running |-> FALSE]

\* The process is alive: the main thread has not left the with block.
Alive == main_pc # "exited"

\* ------------------------------------------------------------------ Init
InitId ==
    /\ id_events = <<>>
    /\ id_out = <<>>
    /\ id_main_pc = "join"

InitMouse ==
    /\ is_script_running = FALSE
    /\ pc = [t \in Threads |-> "idle"]
    /\ args = [t \in Threads |-> NoArgs]
    /\ trace = [t \in Threads |-> <<>>]
    /\ slept = [t \in Threads |-> 0]
    /\ keylog = <<>>
    /\ held = {}
    /\ calls = [t \in Threads |-> 0]
    /\ presses = 0
    /\ main_pc = "join"

\* mouse.py as written: one Listener, one thread that calls on_click.
Init == InitMouse /\ InitId /\ threads = {"t1"}

\* on_click entered by one thread or by two.
InitConc == InitMouse /\ InitId /\ threads \in {{"t1"}, {"t1", "t2"}}

\* ------------------------------------------------------ mouse.py: on_click
\* Dispatch where on_click also runs on a thread the listener does not have
\* (a second listener started on the same callback).
Dispatch_AnyThread(t) ==
    /\ pc[t] = "idle"
    /\ Alive
    /\ TotalCalls < (IF threads = {"t1"} THEN MaxEvents ELSE MaxConcEvents)

\* The listener calls on_click on thread t: t is one of its threads, is not
\* inside on_click already, and the process is alive.
Dispatch(t) ==
    /\ t \in threads
    /\ pc[t] = "idle"
    /\ Alive
    /\ TotalCalls < (IF threads = {"t1"} THEN MaxEvents ELSE MaxConcEvents)

\* OnClick with `and pressed` left out of the test of line 12.
OnClick_IgnoresPressed(t, button, pressed) ==
    /\ args' = [args EXCEPT ![t] = [button |-> button, pressed |-> pressed,
                                    running |-> is_script_running]]
    /\ calls' = [calls EXCEPT ![t] = @ + 1]
    /\ presses' = IF button = button_to_trigger /\ pressed
                  THEN presses + 1 ELSE presses
    /\ trace' = [trace EXCEPT ![t] = <<>>]
    /\ pc' = [pc EXCEPT ![t] =
                IF button = button_to_trigger /\ ~is_script_running
                THEN "l13" ELSE "idle"]
    /\ UNCHANGED <<is_script_running, slept, keylog, held, threads, main_pc>>
    /\ UNCHANGED idVars

\* on_click(x, y, button, pressed), lines 10-12: the test of line 12. When it
\* fails the function returns at once.
OnClick(t, button, pressed) ==
    /\ args' = [args EXCEPT ![t] = [button |-> button, pressed |-> pressed,
                                    running |-> is_script_running]]
    /\ calls' = [calls EXCEPT ![t] = @ + 1]
    /\ presses' = IF button = button_to_trigger /\ pressed
                  THEN presses + 1 ELSE presses
    /\ trace' = [trace EXCEPT ![t] = <<>>]
    /\ pc' = [pc EXCEPT ![t] =
                IF button = button_to_trigger /\ pressed /\ ~is_script_running
                THEN "l13" ELSE "idle"]
    /\ UNCHANGED <<is_script_running, slept, keylog, held, threads, main_pc>>
    /\ UNCHANGED idVars

\* keyboard.Controller().press(key)
Press(t, from, key, to) ==
    /\ pc[t] = from
    /\ Alive
    /\ pc' = [pc EXCEPT ![t] = to]
    /\ keylog' = Append(keylog, [op |-> "press", key |-> key, by |-> t])
    /\ trace' = [trace EXCEPT ![t] = Append(@, KeyEvent("press", key))]
    /\ held' = held \cup {key}
    /\ slept' = [slept EXCEPT ![t] = 0]
    /\ UNCHANGED <<is_script_running, args, calls, presses, threads, main_pc>>
    /\ UNCHANGED idVars

\* keyboard.Controller().release(key)
Release(t, from, key, to) ==
    /\ pc[t] = from
    /\ Alive
    /\ pc' = [pc EXCEPT ![t] = to]
    /\ keylog' = Append(keylog, [op |-> "release", key |-> key, by |-> t])
    /\ trace' = [trace EXCEPT ![t] = Append(@, KeyEvent("release", key))]
    /\ held' = held \ {key}
    /\ slept' = [slept EXCEPT ![t] = 0]
    /\ UNCHANGED <<is_script_running, args, calls, presses, threads, main_pc>>
    /\ UNCHANGED idVars

\* time.sleep(d) for some d of `durations`
Sleep(t, from, durations, to) ==
    /\ pc[t] = from
    /\ Alive
    /\ \E d \in durations : slept' = [slept EXCEPT ![t] = @ + d]
    /\ pc' = [pc EXCEPT ![t] = to]
    /\ UNCHANGED <<is_script_running, args, trace, keylog, held, calls,
                   presses, threads, main_pc>>
    /\ UNCHANGED idVars

\* L13 with the assignment left out.
L13_NoSet(t) ==
    /\ pc[t] = "l13"
    /\ Alive
    /\ pc' = [pc EXCEPT ![t] = "l17"]
    /\ UNCHANGED <<is_script_running, args, trace, slept, keylog, held, calls,
                   presses, threads, main_pc>>
    /\ UNCHANGED idVars

\* line 13: is_script_running = True
L13(t) ==
    /\ pc[t] = "l13"
    /\ Alive
    /\ is_script_running' = TRUE
    /\ pc' = [pc EXCEPT ![t] = "l17"]
    /\ UNCHANGED <<args, trace, slept, keylog, held, calls, presses, threads,
                   main_pc>>
    /\ UNCHANGED idVars

\* lines 17-30: the replay
L17(t) == Press(t, "l17", "v", "l18")
L18(t) == Sleep(t, "l18", Uniform(VHoldMinMs, VHoldMaxMs), "l19")
\* L19 releasing the wrong key.
L19_WrongKey(t) == Release(t, "l19", "1", "l21")
L19(t) == Release(t, "l19", "v", "l21")
L21(t) == Sleep(t, "l21", {GapMs}, "l24")
\* L24 pressing the wrong key.
L24_WrongKey(t) == Press(t, "l24", "1", "l25")
L24(t) == Press(t, "l24", "2", "l25")
L25(t) == Release(t, "l25", "2", "l28")
L28(t) == Press(t, "l28", "1", "l29")
\* L29 with an upper limit one millisecond too large.
L29_Wide(t) == Sleep(t, "l29", Uniform(OneHoldMinMs, OneHoldMaxMs + 1), "l30")
L29(t) == Sleep(t, "l29", Uniform(OneHoldMinMs, OneHoldMaxMs), "l30")
L30(t) == Release(t, "l30", "1", "l34")

\* L34 with the assignment left out.
L34_NoReset(t) ==
    /\ pc[t] = "l34"
    /\ Alive
    /\ pc' = [pc EXCEPT ![t] = "idle"]
    /\ UNCHANGED <<is_script_running, args, trace, slept, keylog, held, calls,
                   presses, threads, main_pc>>
    /\ UNCHANGED idVars

\* line 34: is_script_running = False, and on_click returns
L34(t) ==
    /\ pc[t] = "l34"
    /\ Alive
    /\ is_script_running' = FALSE
    /\ pc' = [pc EXCEPT ![t] = "idle"]
    /\ UNCHANGED <<args, trace, slept, keylog, held, calls, presses, threads,
                   main_pc>>
    /\ UNCHANGED idVars

\* KeyFault as if the replay were in a try whose finally resets the flag.
KeyFault_Finally(t) ==
    /\ pc[t] \in {"l17", "l19", "l24", "l25", "l28", "l30"}
    /\ Alive
    /\ pc' = [pc EXCEPT ![t] = "raised"]
    /\ is_script_running' = FALSE
    /\ UNCHANGED <<args, trace, slept, keylog, held, calls, presses, threads,
                   main_pc>>
    /\ UNCHANGED idVars

\* keyboard.Controller().press / .release raises: on_click has no try, so
\* the exception leaves it from the statement it is at.
KeyFault(t) ==
    /\ pc[t] \in {"l17", "l19", "l24", "l25", "l28", "l30"}
    /\ Alive
    /\ pc' = [pc EXCEPT ![t] = "raised"]
    /\ UNCHANGED <<is_script_running, args, trace, slept, keylog, held,
                   calls, presses, threads, main_pc>>
    /\ UNCHANGED idVars

\* ---------------------------------------------------- mouse.py: main thread
\* KeyboardInterrupt while the main thread is in listener.join() (line 39):
\* control goes to the except clause of line 40.
Interrupt ==
    /\ main_pc = "join"
    /\ main_pc' = "except"
    /\ UNCHANGED <<is_script_running, pc, args, trace, slept, keylog, held,
                   calls, presses, threads>>
    /\ UNCHANGED idVars

\* lines 40-42: pass; the with block ends (the listener is stopped) and the
\* script ends with nothing after it.
ExceptPass ==
    /\ main_pc = "except"
    /\ main_pc' = "exited"
    /\ UNCHANGED <<is_script_running, pc, args, trace, slept, keylog, held,
                   calls, presses, threads>>
    /\ UNCHANGED idVars

\* A step of on_click on some thread.
HandlerNext ==
    \/ \E t \in Threads, b \in Buttons, p \in BOOLEAN :
          Dispatch(t) /\ OnClick(t, b, p)
    \/ \E t \in Threads : L13(t)
    \/ \E t \in Threads : L17(t)
    \/ \E t \in Threads : L18(t)
    \/ \E t \in Threads : L19(t)
    \/ \E t \in Threads : L21(t)
    \/ \E t \in Threads : L24(t)
    \/ \E t \in Threads : L25(t)
    \/ \E t \in Threads : L28(t)
    \/ \E t \in Threads : L29(t)
    \/ \E t \in Threads : L30(t)
    \/ \E t \in Threads : L34(t)

\* mouse.py: the listener thread and the main thread.
Next ==
    \/ HandlerNext
    \/ Interrupt
    \/ ExceptPass

Spec == Init /\ [][Next]_vars

\* on_click of mouse.py run by one thread or by two at once.
SpecConc == InitConc /\ [][HandlerNext]_vars

\* mouse.py where the keyboard controller may raise.
NextFault ==
    \/ Next
    \/ \E t \in Threads : KeyFault(t)

SpecFault == Init /\ [][NextFault]_vars

\* ----------------------------------------------------------- mouseid.py
\* str(button) of a member of the enum mouse.Button
ButtonStr(button) == "Button." \o button

\* FormatLine with the two words exchanged.
FormatLine_Swapped(button, pressed) ==
    "Button " \o ButtonStr(button) \o " "
        \o (IF pressed THEN "released" ELSE "pressed")

\* f"Button {button} {'pressed' if pressed else 'released'}"
FormatLine(button, pressed) ==
    "Button " \o ButtonStr(button) \o " "
        \o (IF pressed THEN "pressed" ELSE "released")

\* on_click(x, y, button, pressed), lines 5-6: print the line
IdOnClick(button, pressed) ==
    /\ id_main_pc = "join"
    /\ Len(id_events) < MaxIdEvents
    /\ id_events' = Append(id_events, [button |-> button, pressed |-> pressed])
    /\ id_out' = Append(id_out, FormatLine(button, pressed))
    /\ UNCHANGED id_main_pc
    /\ UNCHANGED mouseVars

\* KeyboardInterrupt while the main thread is in listener.join() (line 11):
\* there is no try around it, so the with block ends (the listener is
\* stopped) and the exception leaves the script, which ends with a traceback.
IdInterrupt ==
    /\ id_main_pc = "join"
    /\ id_main_pc' = "traceback"
    /\ UNCHANGED <<id_events, id_out>>
    /\ UNCHANGED mouseVars

NextId ==
    \/ \E b \in Buttons, p \in BOOLEAN : IdOnClick(b, p)
    \/ IdInterrupt

SpecId == Init /\ [][NextId]_vars

\* ================================================================ claims
\* The replay, as the key events of one invocation.
ReplayKeys ==
    << [op |-> "press", key |-> "v"], [op |-> "release", key |-> "v"],
       [op |-> "press", key |-> "2"], [op |-> "release", key |-> "2"],
       [op |-> "press", key |-> "1"], [op |-> "release", key |-> "1"] >>

IsPrefix(s, r) == Len(s) <= Len(r) /\ s = SubSeq(r, 1, Len(s))

\* n replays one after the other
RECURSIVE Replays(_)
Replays(n) == IF n = 0 THEN <<>> ELSE Replays(n - 1) \o ReplayKeys

\* keylog without the threads
LogKeys == [i \in 1 .. Len(keylog) |-> [op |-> keylog[i].op, key |-> keylog[i].key]]

\* The last invocation on t was a press of the trigger button that found the
\* flag false.
Accepted(t) ==
    /\ calls[t] > 0
    /\ args[t].button = "x2"
    /\ args[t].pressed
    /\ ~args[t].running

\* ---- C1
\* C1: an invocation of on_click with the trigger button, pressed = true and
\* the flag false emits press v, release v, press 2, release 2, press 1,
\* release 1 in that order and nothing else: what it has emitted is at every
\* moment a prefix of that sequence, and the whole of it when it returns.
C1_ExactSequence ==
    \A t \in Threads :
        Accepted(t) =>
            /\ IsPrefix(trace[t], ReplayKeys)
            /\ pc[t] = "idle" => trace[t] = ReplayKeys

C1_Witness ==
    /\ Accepted("t1")
    /\ pc["t1"] = "idle"
    /\ trace["t1"] = ReplayKeys

\* ---- C2
\* C2: an invocation of on_click that is not a press of the trigger button
\* with the flag false emits no key event, raises nothing (it returns) and
\* leaves the flag and the held keys as they were.
C2_NoOp ==
    [][ \A t \in Threads :
          ( /\ calls'[t] = calls[t] + 1
            /\ ~( /\ args'[t].button = "x2"
                  /\ args'[t].pressed
                  /\ ~is_script_running ) )
          => /\ keylog' = keylog
             /\ held' = held
             /\ is_script_running' = is_script_running
             /\ trace'[t] = <<>>
             /\ pc'[t] = "idle" ]_vars

\* A press of the trigger button arrived while the flag was true, and
\* returned without a key event.
C2_Witness ==
    \E t \in Threads :
        /\ calls[t] > 0
        /\ args[t].button = "x2"
        /\ args[t].pressed
        /\ args[t].running
        /\ pc[t] = "idle"
        /\ trace[t] = <<>>

\* ---- C3
\* C3: with events delivered one at a time, whenever on_click has returned
\* the flag is false and the key events emitted so far are one full replay
\* per press of the trigger button delivered so far; while a replay is in
\* progress they are the earlier replays followed by what it has emitted.
C3_EveryPressReplays ==
    /\ pc["t1"] = "idle" =>
          /\ ~is_script_running
          /\ LogKeys = Replays(presses)
    /\ (pc["t1"] # "idle" /\ presses > 0) =>
          LogKeys = Replays(presses - 1) \o trace["t1"]

\* Two presses of the trigger button one right after the other, both replayed.
C3_Witness ==
    /\ pc["t1"] = "idle"
    /\ calls["t1"] = 2
    /\ presses = 2
    /\ Len(keylog) = 12

\* ---- C4
\* C4: the flag is true exactly while an invocation is between its line 13
\* and its line 34: false initially and whenever on_click is not running,
\* set before the first key event and reset after the last.
C4_GuardScope ==
    /\ is_script_running <=> pc["t1"] \in ReplayPcs
    /\ pc["t1"] \in {"idle", "l13"} => ~is_script_running
    /\ pc["t1"] = "l13" => trace["t1"] = <<>>
    /\ pc["t1"] = "l34" => trace["t1"] = ReplayKeys

C4_Witness ==
    /\ is_script_running
    /\ pc["t1"] = "l28"
    /\ calls["t1"] = 2

\* ---- C5
\* The line the Button Identifier is to print for an event.
ExpectedLine(e) ==
    CASE e.button = "left" /\ e.pressed -> "Button Button.left pressed"
      [] e.button = "left" /\ ~e.pressed -> "Button Button.left released"
      [] e.button = "x1" /\ e.pressed -> "Button Button.x1 pressed"
      [] e.button = "x1" /\ ~e.pressed -> "Button Button.x1 released"
      [] e.button = "x2" /\ e.pressed -> "Button Button.x2 pressed"
      [] e.button = "x2" /\ ~e.pressed -> "Button Button.x2 released"

\* C5: the output of the Button Identifier is one line per event, in the
\* order of delivery, "Button <button> pressed" or "Button <button>
\* released", each line depending on its own event only.
C5_OneLinePerEvent ==
    /\ Len(id_out) = Len(id_events)
    /\ \A i \in 1 .. Len(id_events) : id_out[i] = ExpectedLine(id_events[i])

C5_Witness ==
    /\ id_events = << [button |-> "x1", pressed |-> TRUE],
                      [button |-> "x1", pressed |-> FALSE],
                      [button |-> "x2", pressed |-> TRUE] >>
    /\ id_out = << "Button Button.x1 pressed", "Button Button.x1 released",
                   "Button Button.x2 pressed" >>

\* ---- C6
\* C6: in both programs a KeyboardInterrupt raised in listener.join() is
\* caught: neither script ends with the exception propagated.
C6_InterruptCaughtInBoth ==
    /\ main_pc # "traceback"
    /\ id_main_pc # "traceback"

\* ---- C7
\* C7: v is held for 96 to 100 ms and 1 is held for 96 to 100 ms, 5 ms pass
\* between release v and press 2, and 2 is released with no sleep after its
\* press.
C7_Durations ==
    \A t \in Threads :
        /\ pc[t] = "l19" => (held = {"v"} /\ slept[t] \in 96 .. 100)
        /\ pc[t] = "l24" => (held = {} /\ slept[t] = 5)
        /\ pc[t] = "l25" => (held = {"2"} /\ slept[t] = 0)
        /\ pc[t] = "l30" => (held = {"1"} /\ slept[t] \in 96 .. 100)

C7_Witness ==
    /\ pc["t1"] = "l30"
    /\ held = {"1"}
    /\ slept["t1"] = 100

\* ---- C8
\* The key events are whole replays one after the other, each by one thread,
\* followed by at most one unfinished replay.
NoInterleave ==
    \A i \in 1 .. Len(keylog) :
        /\ LogKeys[i] = ReplayKeys[((i - 1) % 6) + 1]
        /\ (i - 1) % 6 # 0 => keylog[i].by = keylog[i - 1].by

\* The threads that passed the test of line 12 and have not returned.
Replaying == {t \in Threads : pc[t] \in ReplayPcs \cup {"l13"}}

\* C8: when a single listener thread delivers the events, at most one replay
\* is in progress and the key events of distinct replays do not interleave.
\* (The witness is the other half: two threads, both past the test.)
C8_SerialNoInterleave ==
    threads = {"t1"} =>
        /\ Cardinality(Replaying) <= 1
        /\ NoInterleave

\* Two threads both read the flag false, both replay, their key events
\* interleave, and one has reset the flag while the other is still emitting.
C8_Witness ==
    /\ threads = {"t1", "t2"}
    /\ \A t \in Threads : Accepted(t) /\ trace[t] # <<>>
    /\ ~NoInterleave
    /\ ~is_script_running
    /\ pc["t1"] = "idle"
    /\ pc["t2"] \in {"l19", "l24", "l25", "l28", "l30"}

\* ---- C9
\* The keys pressed and not released by the key events s.
HeldAfter(s) ==
    IF Len(s) % 2 = 1 THEN {s[Len(s)].key} ELSE {}

\* C9: when a key press or release raises, nothing is cleaned up: the
\* exception leaves on_click, the flag stays true, the key pressed and not
\* released stays pressed, and no later step of the replay runs.
C9_NoCleanup ==
    [][ \A t \in Threads :
          /\ pc'[t] = "raised" =>
                /\ is_script_running'
                /\ IsPrefix(trace'[t], ReplayKeys)
                /\ Len(trace'[t]) < 6
                /\ held' = HeldAfter(trace'[t])
          /\ pc[t] = "raised" =>
                /\ pc'[t] = "raised"
                /\ keylog' = keylog
                /\ held' = held
                /\ is_script_running' = is_script_running ]_vars

\* release('v') raised: v stays pressed and the flag stays true.
C9_Witness ==
    /\ pc["t1"] = "raised"
    /\ held = {"v"}
    /\ is_script_running

\* ---- C10
\* A step of the replay is possible.
CanStep(t) ==
    ENABLED (\/ L13(t) \/ L17(t) \/ L18(t) \/ L19(t) \/ L21(t) \/ L24(t)
             \/ L25(t) \/ L28(t) \/ L29(t) \/ L30(t) \/ L34(t))

\* C10: with events delivered one at a time and no interruption, every press
\* is followed by the release of the same key before any other press, at
\* most one synthetic key is held, none is held when on_click has returned
\* or the flag is false, and a replay goes on, step by step, to its sixth
\* key event and ends there.
C10_OneKeyHeld ==
    /\ Cardinality(held) <= 1
    /\ ~is_script_running => held = {}
    /\ pc["t1"] = "idle" => held = {}
    /\ \A i \in 1 .. Len(keylog) :
          /\ (i % 2 = 1) => keylog[i].op = "press"
          /\ (i % 2 = 0) => /\ keylog[i].op = "release"
                            /\ keylog[i].key = keylog[i - 1].key
    /\ held = HeldAfter(keylog)
    /\ Len(trace["t1"]) <= 6
    /\ (pc["t1"] = "idle" /\ Accepted("t1")) => Len(trace["t1"]) = 6
    /\ (pc["t1"] # "idle" /\ Alive) => CanStep("t1")

C10_Witness ==
    /\ pc["t1"] = "l25"
    /\ held = {"2"}
    /\ Len(keylog) = 9

====
